---- MODULE Spec2Model ----
(***************************************************************************)
(* A model of AutoPaperLBO.py: the two XBRL fact resolvers                 *)
(* (xbrl_parse_financial_data_iterparse, xbrl_parse_financial_data), their *)
(* lru_cache wrappers, the reconciliation in main, calculate_metrics and   *)
(* compute_financial_health_score.                                         *)
(*                                                                         *)
(* Numbers.  A Python float that the program reads from a document is an   *)
(* integer, and the only non-integers the resolvers make are halves        *)
(* (combined / 2).  An amount is therefore kept as a fixed-point integer   *)
(* counting halves: the float f is the integer 2*f.  Ratios of amounts are *)
(* exact rationals <<numerator, denominator>>.                             *)
(*                                                                         *)
(* Optional values.  Python's None is the empty sequence and a present     *)
(* value v is <<v>>.  A dict is a function from its keys to its values;    *)
(* the empty dict {} is the function with the empty domain.                *)
(***************************************************************************)
EXTENDS Integers, Sequences, FiniteSets, TLC

\* ---------------------------------------------------------------- bounds

\* The most elements one streaming scan reads before the document ends.
MaxElems == 3
\* The most elements of a document that is resolved as a whole.
MaxDocLen == 2
\* The largest amount, in absolute value, of the facts handed to
\* calculate_metrics.
MaxAmount == 1

\* ------------------------------------------------------- optional values

None == <<>>
Some(v) == <<v>>
Val(o) == o[1]

\* dict.get(key): the value, or None when the key is missing.
Get(d, k) == IF k \in DOMAIN d THEN d[k] ELSE None

\* A dict with key k set to v, whether or not it had the key (d[k] = v).
SetItem(d, k, v) == [x \in DOMAIN d \cup {k} |-> IF x = k THEN v ELSE d[x]]

\* ------------------------------------------------------------------ text

\* The characters of an element's text: two digits, the thousands
\* separator, white space, and a character no number holds.
Chars == {"1", "2", ",", " ", "x"}
Digits == {"1", "2"}
DigitVal(c) == IF c = "1" THEN 1 ELSE 2

\* The element texts the documents hold: the empty text, three that are
\* no number ("x", "1 2", ","), and three numbers, one of them written with
\* a separator and white space around it (" 2," is 2.0).
Texts == {<< >>, <<"x">>, <<"1", " ", "2">>,
          <<"1">>, <<"2">>, <<" ", "2", ",">>}

\* str.replace(',', '')
RemoveCommas(s) == SelectSeq(s, LAMBDA c : c # ",")

\* str.strip(): leading and trailing white space removed.
RECURSIVE LStrip(_)
LStrip(s) == IF s # <<>> /\ Head(s) = " " THEN LStrip(Tail(s)) ELSE s
RECURSIVE RStrip(_)
RStrip(s) ==
  IF s # <<>> /\ s[Len(s)] = " " THEN RStrip(SubSeq(s, 1, Len(s) - 1)) ELSE s
Strip(s) == RStrip(LStrip(s))

\* float(s) for s over Chars: a non-empty run of digits, read in base ten;
\* anything else raises ValueError.
IsNumber(s) == s # <<>> /\ \A i \in 1..Len(s) : s[i] \in Digits
RECURSIVE DecVal(_)
DecVal(s) ==
  IF s = <<>> THEN 0
  ELSE 10 * DecVal(SubSeq(s, 1, Len(s) - 1)) + DigitVal(s[Len(s)])

\* The float n as a fixed-point amount (halves).
Float(n) == 2 * n

try_convert_to_float(value_str) ==
  LET s == Strip(RemoveCommas(value_str))
  IN  IF IsNumber(s) THEN Some(Float(DecVal(s))) ELSE None

\* ------------------------------------------------------- the tag table

\* target_names, in the order the dict literal lists it: <<alias, key>>.
target_names == <<
  <<"SalesRevenueNet", "Revenue">>,
  <<"Revenues", "Revenue">>,
  <<"NetSales", "Revenue">>,
  <<"NetRevenue", "Revenue">>,
  <<"CostOfGoodsSold", "Cost of Goods Sold">>,
  <<"CostOfGoodsAndServicesSold", "Cost of Goods Sold">>,
  <<"CostOfRevenue", "Cost of Goods Sold">>,
  <<"OperatingIncomeLoss", "Operating Income">>,
  <<"OperatingIncome", "Operating Income">>,
  <<"DepreciationDepletionAndAmortization", "DepreciationAmortation">>,
  <<"InterestExpense", "Interest Expense">>,
  <<"InterestExpenseBenefit", "Interest Expense">>,
  <<"IncomeBeforeTax", "Income Before Tax">>,
  <<"IncomeBeforeTaxExpenseBenefit", "Income Before Tax">>,
  <<"ProfitBeforeTax", "Income Before Tax">>,
  <<"PreTaxIncome", "Income Before Tax">> >>

Aliases == {target_names[i][1] : i \in DOMAIN target_names}
KeyOf(name) ==
  target_names[CHOOSE i \in DOMAIN target_names :
                 target_names[i][1] = name][2]
ScanKeys == {target_names[i][2] : i \in DOMAIN target_names}

\* An alias's place in its fact's alias order: 1 is the most preferred.
Rank(name) ==
  LET i == CHOOSE j \in DOMAIN target_names : target_names[j][1] = name
  IN  Cardinality({j \in 1..i : target_names[j][2] = target_names[i][2]})

\* ------------------------------------------------------------- elements

\* What iterparse yields at an 'end' event: the element's tag (an inline
\* XBRL nonFraction, a us-gaap element named by the alias, or any other
\* element), its name attribute ("" when it has none) and its text.
NoName == ""
OtherName == "Assets"
Names == Aliases \cup {OtherName, NoName}
Element(tag, name, text) == [tag |-> tag, name |-> name, text |-> text]
NonFractions == {Element("nonFraction", nm, t) : nm \in Names, t \in Texts}

\* Elements with another tag: the streaming scan passes over them whatever
\* their name and text.
OtherTagElems == {Element("other", nm, <<"1">>) :
                    nm \in {"SalesRevenueNet", NoName}}
ScanElems == NonFractions \cup OtherTagElems

\* ------------------------------------------------------------ variables

VARIABLES
  pc,       \* the streaming resolver: "scan", "done" (returned final_data)
            \* or "failed" (returned from the except branch)
  count,    \* how many elements the loop has read
  data,     \* the dict the scan fills
  result,   \* what the resolver returned
  src,      \* history: per key, the alias whose annotation data[key] is from
  best,     \* history: per key, the most preferred numeric annotation read
  bad       \* history: how many annotations of a known alias with a text
            \* that is no number the loop has read (n), whether one was
            \* read for a fact that had a value (held), and whether an
            \* annotation read after one was resolved (later)

scanVars == <<pc, count, data, result, src, best, bad>>

VARIABLES
  document,     \* a normalized fragment handed to both resolvers
  iterResult,   \* what xbrl_parse_financial_data_iterparse returned for it
  wholeResult   \* what xbrl_parse_financial_data returned for it

resolveVars == <<document, iterResult, wholeResult>>

VARIABLES
  facts,      \* the dict handed to calculate_metrics
  metrics,    \* the dict calculate_metrics returned
  scores,     \* the six sub-scores of compute_financial_health_score
  composite   \* the number compute_financial_health_score returned

metricVars == <<facts, metrics, scores, composite>>

VARIABLES
  file,        \* the document at the path main parses (latest_file)
  iterCache,   \* the lru_cache entry of xbrl_parse_financial_data_iterparse
               \* for that path: None, or the dict object it holds
  wholeCache,  \* the same for xbrl_parse_financial_data
  mainPc,      \* where main stands: "start" (before line 375), "parsed",
               \* "alt", "reconciled", "metrics", "scored"
  lastCall,    \* history: the last call of a cached resolver: which one,
               \* the record it returned (value), and the facts of the
               \* content the path had at the call (fresh)
  firstIter,   \* history: the record the first streaming call on the
               \* document now at the path returned, as it was then
  touched      \* history: main has assigned into the cached streaming record

pipeVars ==
  <<file, iterCache, wholeCache, mainPc, lastCall, firstIter, touched>>

vars == <<scanVars, resolveVars, metricVars, pipeVars>>

\* What an action of one part leaves alone: the variables of the others.
notScan == <<resolveVars, metricVars, pipeVars>>
notResolve == <<scanVars, metricVars, pipeVars>>
notMetric == <<scanVars, resolveVars, pipeVars>>
notPipe == <<scanVars, resolveVars, facts>>

\* ------------------------------------------- the streaming resolver

FactKeys == {"Revenue", "Cost of Goods Sold", "Operating Income",
             "Depreciation", "Amortization", "Interest Expense",
             "Income Before Tax"}

\* data as the resolver initialises it: every key None.
EmptyData == [k \in ScanKeys |-> None]

\* The names that overwrite a value already held, per key.
Overriders(key) ==
  CASE key = "Revenue" -> {"SalesRevenueNet"}
    [] key = "Cost of Goods Sold" ->
         {"CostOfGoodsSold", "CostOfGoodsAndServicesSold"}
    [] key = "Operating Income" -> {"OperatingIncomeLoss"}
    [] key = "DepreciationAmortation" -> {}
    [] key = "Interest Expense" -> {"InterestExpense"}
    [] key = "Income Before Tax" ->
         {"IncomeBeforeTax", "ProfitBeforeTax", "PreTaxIncome"}

\* Whether the loop body assigns data[key] for this element.
Assigns(d, e) ==
  /\ e.tag = "nonFraction"
  /\ e.name \in Aliases
  /\ try_convert_to_float(e.text) # None
  /\ \/ d[KeyOf(e.name)] = None
     \/ e.name \in Overriders(KeyOf(e.name))

\* A mutant of ScanElement: the value is stored without the None test, so a
\* text that is no number clears the key.
ScanElementNoNoneTest(d, e) ==
  IF e.tag = "nonFraction" /\ e.name \in Aliases
  THEN IF d[KeyOf(e.name)] = None \/ e.name \in Overriders(KeyOf(e.name))
       THEN [d EXCEPT ![KeyOf(e.name)] = try_convert_to_float(e.text)]
       ELSE d
  ELSE d

\* One pass of the loop body over element e, from data d.
ScanElement(d, e) ==
  IF Assigns(d, e)
  THEN [d EXCEPT ![KeyOf(e.name)] = try_convert_to_float(e.text)]
  ELSE d

\* The fallback after the loop: Operating Income stands in for a missing
\* Income Before Tax.
Fallback(d) ==
  IF d["Income Before Tax"] = None /\ d["Operating Income"] # None
  THEN [d EXCEPT !["Income Before Tax"] = d["Operating Income"]]
  ELSE d

\* combined / 2, on fixed-point amounts.
Half(combined) == combined \div 2

\* A mutant of FinalData: amortization is the whole combined figure.
FinalDataAmortNotHalved(d) ==
  LET c == d["DepreciationAmortation"]
      depreciation == IF c # None THEN Some(Half(Val(c))) ELSE None
      amortization == c
  IN  [k \in FactKeys |->
         CASE k = "Depreciation" -> depreciation
           [] k = "Amortization" -> amortization
           [] OTHER -> d[k]]

\* final_data, from data after the fallback.
FinalData(d) ==
  LET c == d["DepreciationAmortation"]
      depreciation == IF c # None THEN Some(Half(Val(c))) ELSE None
      amortization == IF c # None THEN Some(Half(Val(c))) ELSE None
  IN  [k \in FactKeys |->
         CASE k = "Depreciation" -> depreciation
           [] k = "Amortization" -> amortization
           [] OTHER -> d[k]]

\* What the except branch returns.
EmptyDict == [k \in {} |-> None]

\* History: whether e is an annotation of a known alias with a numeric text.
Numeric(e) ==
  /\ e.tag = "nonFraction"
  /\ e.name \in Aliases
  /\ IsNumber(Strip(RemoveCommas(e.text)))
NotNumeric(e) ==
  /\ e.tag = "nonFraction"
  /\ e.name \in Aliases
  /\ ~IsNumber(Strip(RemoveCommas(e.text)))

\* History: the most preferred numeric annotation read for each key, the
\* first of its alias, and whether a less preferred one came before it.
NoBest == [k \in ScanKeys |-> None]
BestAfter(b, e) ==
  IF ~Numeric(e) THEN b
  ELSE LET k == KeyOf(e.name)
           v == Float(DecVal(Strip(RemoveCommas(e.text))))
       IN  IF b[k] = None
           THEN [b EXCEPT ![k] =
                   Some([rank |-> Rank(e.name), value |-> v, late |-> FALSE])]
           ELSE IF Rank(e.name) < Val(b[k]).rank
           THEN [b EXCEPT ![k] =
                   Some([rank |-> Rank(e.name), value |-> v, late |-> TRUE])]
           ELSE b

ScanInit ==
  /\ pc = "scan"
  /\ count = 0
  /\ data = EmptyData
  /\ result = None
  /\ src = [k \in ScanKeys |-> NoName]
  /\ best = NoBest
  /\ bad = [n |-> 0, held |-> FALSE, later |-> FALSE]

\* The for loop reads the next element (one 'end' event), runs its body and
\* clears the element (elem.clear()), so no element outlives its iteration.
ReadElement ==
  /\ pc = "scan"
  /\ count < MaxElems
  /\ \E e \in ScanElems :
       /\ data' = ScanElement(data, e)
       /\ src' = IF Assigns(data, e)
                 THEN [src EXCEPT ![KeyOf(e.name)] = e.name]
                 ELSE src
       /\ best' = BestAfter(best, e)
       /\ bad' = IF NotNumeric(e)
                 THEN [bad EXCEPT !.n = bad.n + 1,
                         !.held = bad.held \/ data[KeyOf(e.name)] # None]
                 ELSE [bad EXCEPT
                         !.later = bad.later \/ (bad.n > 0 /\ Assigns(data, e))]
  /\ count' = count + 1
  /\ UNCHANGED <<pc, result, notScan>>

\* iterparse raises (the fragment is not well formed): the except branch.
ParseError ==
  /\ pc = "scan"
  /\ pc' = "failed"
  /\ result' = Some(EmptyDict)
  /\ UNCHANGED <<count, data, src, best, bad, notScan>>

\* The stream ends: the fallback, the split and the return of final_data.
Finish ==
  /\ pc = "scan"
  /\ pc' = "done"
  /\ data' = Fallback(data)
  /\ result' = Some(FinalData(Fallback(data)))
  /\ UNCHANGED <<count, src, best, bad, notScan>>

ScanNext == ReadElement \/ ParseError \/ Finish

\* ------------------------------------------- the resolvers on a document

\* A document: the elements of its normalized fragment in document order,
\* and whether the fragment is well formed.  One that is not (an
\* unterminated tag after the elements) makes fromstring raise at once and
\* iterparse raise after it has yielded the elements before the error.
\* A us-gaap element has the tag "gaap" and its local name as name.
Document(elems, ok) == [elems |-> elems, ok |-> ok]

\* The streaming loop over all the elements of a fragment.
RECURSIVE ScanAll(_, _)
ScanAll(d, elems) ==
  IF elems = <<>> THEN d ELSE ScanAll(ScanElement(d, Head(elems)), Tail(elems))

\* xbrl_parse_financial_data_iterparse on the fragment of a document.
xbrl_parse_financial_data_iterparse(doc) ==
  LET d == ScanAll(EmptyData, doc.elems)
  IN  IF doc.ok THEN FinalData(Fallback(d)) ELSE EmptyDict

\* tree.xpath('string(//us-gaap:<name>)'): the text of the first us-gaap
\* element of that name in document order, "" when there is none.
XPathString(elems, name) ==
  LET hits == {i \in 1..Len(elems) :
                 elems[i].tag = "gaap" /\ elems[i].name = name}
  IN  IF hits = {} THEN << >>
      ELSE elems[CHOOSE i \in hits : \A j \in hits : i <= j].text

\* The chain "x = xpath(first); if x.strip() == '': x = xpath(next); ...".
RECURSIVE Alternatives(_, _)
Alternatives(elems, names) ==
  LET x == XPathString(elems, Head(names))
  IN  IF Len(names) > 1 /\ Strip(x) = << >>
      THEN Alternatives(elems, Tail(names))
      ELSE x

\* The dict the except branch of xbrl_parse_financial_data returns.
AllNone == [k \in FactKeys |-> None]

\* depreciation (and amortization) of the whole-fragment resolver.
WholeSplit(elems) ==
  LET dep_amort == XPathString(elems, "DepreciationDepletionAndAmortization")
      combined == try_convert_to_float(dep_amort)
  IN  IF Strip(dep_amort) # << >> /\ combined # None
      THEN Some(Val(combined) \div 2) ELSE None

\* xbrl_parse_financial_data on the fragment of a document.
xbrl_parse_financial_data(doc) ==
  IF ~doc.ok THEN AllNone
  ELSE LET e == doc.elems
           revenue == Alternatives(e,
             <<"SalesRevenueNet", "Revenues", "NetSales", "NetRevenue">>)
           cogs == Alternatives(e, <<"CostOfGoodsSold", "CostOfRevenue">>)
           operating_income ==
             Alternatives(e, <<"OperatingIncomeLoss", "OperatingIncome">>)
           interest_expense ==
             Alternatives(e, <<"InterestExpense", "InterestExpenseBenefit">>)
           income_before_tax == Alternatives(e,
             <<"IncomeBeforeTax", "IncomeBeforeTaxExpenseBenefit">>)
       IN  [k \in FactKeys |->
              CASE k = "Revenue" -> try_convert_to_float(revenue)
                [] k = "Cost of Goods Sold" -> try_convert_to_float(cogs)
                [] k = "Operating Income" ->
                     try_convert_to_float(operating_income)
                [] k = "Depreciation" -> WholeSplit(e)
                [] k = "Amortization" -> WholeSplit(e)
                [] k = "Interest Expense" ->
                     try_convert_to_float(interest_expense)
                [] k = "Income Before Tax" ->
                     try_convert_to_float(income_before_tax)]

\* The documents resolved as a whole: up to MaxDocLen elements, each an
\* inline annotation or a us-gaap element of one of three names with any
\* text, well formed or not.
ResolveNames == {"DepreciationDepletionAndAmortization", "SalesRevenueNet",
                 "OperatingIncome"}
ResolveElems == {Element(tag, nm, t) :
                   tag \in {"nonFraction", "gaap"}, nm \in ResolveNames,
                   t \in Texts}
Documents == {Document(es, ok) :
                es \in UNION {[1..n -> ResolveElems] : n \in 0..MaxDocLen},
                ok \in BOOLEAN}

ResolveInit ==
  /\ document \in Documents
  /\ iterResult = None
  /\ wholeResult = None

\* A call of the streaming resolver on the document.
RunIterparse ==
  /\ iterResult = None
  /\ iterResult' = Some(xbrl_parse_financial_data_iterparse(document))
  /\ UNCHANGED <<document, wholeResult, notResolve>>

\* A call of the whole-fragment resolver on the document.
RunFromstring ==
  /\ wholeResult = None
  /\ wholeResult' = Some(xbrl_parse_financial_data(document))
  /\ UNCHANGED <<document, iterResult, notResolve>>

ResolveNext == RunIterparse \/ RunFromstring

\* ------------------------------------------------------------ rationals

\* A ratio is an exact rational <<numerator, denominator>> in lowest terms
\* with a positive denominator.
Abs(x) == IF x < 0 THEN -x ELSE x
RECURSIVE GCD(_, _)
GCD(a, b) == IF b = 0 THEN a ELSE GCD(b, a % b)
Rat(n, d) ==
  LET g == GCD(Abs(n), Abs(d))
      sgn == IF d < 0 THEN -1 ELSE 1
  IN  <<(sgn * n) \div g, (sgn * d) \div g>>
RAdd(a, b) == Rat(a[1] * b[2] + b[1] * a[2], a[2] * b[2])
RSub(a, b) == Rat(a[1] * b[2] - b[1] * a[2], a[2] * b[2])
RMul(a, b) == Rat(a[1] * b[1], a[2] * b[2])
RDiv(a, b) == Rat(a[1] * b[2], a[2] * b[1])
RLess(a, b) == a[1] * b[2] < b[1] * a[2]
RLeq(a, b) == a[1] * b[2] <= b[1] * a[2]
\* Python's min(a, b) and max(a, b): the first argument unless the second
\* is smaller (larger).
RMin(a, b) == IF RLess(b, a) THEN b ELSE a
RMax(a, b) == IF RLess(a, b) THEN b ELSE a

\* ---------------------------------------------------- calculate_metrics

\* Two dicts in one (**diagnostics after the three earnings keys).
Merge(f, g) ==
  [k \in DOMAIN f \cup DOMAIN g |-> IF k \in DOMAIN g THEN g[k] ELSE f[k]]
Entry(k, v) == [x \in {k} |-> v]

\* EBIT: Operating Income, else Revenue - Cost of Goods Sold.
EBITOf(d) ==
  LET revenue == Get(d, "Revenue")
      cogs == Get(d, "Cost of Goods Sold")
      operating_income == Get(d, "Operating Income")
  IN  IF operating_income = None /\ revenue # None /\ cogs # None
      THEN Some(Val(revenue) - Val(cogs))
      ELSE operating_income

\* A mutant of EBITDAOf: amortization is not added.
EBITDANoAmortization(d) ==
  LET depreciation == Get(d, "Depreciation")
      EBIT == EBITOf(d)
  IN  IF EBIT = None THEN None
      ELSE Some(Val(EBIT)
                + (IF depreciation # None THEN Val(depreciation) ELSE 0))

\* EBITDA: EBIT plus the depreciation and the amortization that are there.
EBITDAOf(d) ==
  LET depreciation == Get(d, "Depreciation")
      amortization == Get(d, "Amortization")
      EBIT == EBITOf(d)
  IN  IF EBIT = None THEN None
      ELSE Some(Val(EBIT)
                + (IF depreciation # None THEN Val(depreciation) ELSE 0)
                + (IF amortization # None THEN Val(amortization) ELSE 0))

\* income_before_tax after its fallback to EBIT (EBT).
EBTOf(d) ==
  LET income_before_tax == Get(d, "Income Before Tax")
  IN  IF income_before_tax = None /\ EBITOf(d) # None
      THEN EBITOf(d) ELSE income_before_tax

\* "revenue is not None and x is not None and revenue != 0"
HasRatio(revenue, x) == revenue # None /\ x # None /\ Val(revenue) # 0

\* The entries Gross Profit, Gross Margin and Cost Efficiency.
GrossEntries(d) ==
  LET revenue == Get(d, "Revenue")
      cogs == Get(d, "Cost of Goods Sold")
      gross_profit == Val(revenue) - Val(cogs)
  IN  IF HasRatio(revenue, cogs)
      THEN Merge(Entry("Gross Profit", Some(gross_profit)),
             Merge(Entry("Gross Margin", Rat(gross_profit, Val(revenue))),
                   Entry("Cost Efficiency", Rat(Val(cogs), Val(revenue)))))
      ELSE EmptyDict

\* A mutant of RatioEntry: a ratio that cannot be computed is entered as
\* None, the way the three earnings keys are.
RatioEntryDefaulted(d, key, x) ==
  LET revenue == Get(d, "Revenue")
  IN  IF HasRatio(revenue, x)
      THEN Entry(key, Rat(Val(x), Val(revenue)))
      ELSE Entry(key, None)

\* The entry key: x / revenue, for Operating Margin, EBITDA Margin, Pre-tax
\* Margin, Depreciation Ratio and Amortization Ratio.
RatioEntry(d, key, x) ==
  LET revenue == Get(d, "Revenue")
  IN  IF HasRatio(revenue, x)
      THEN Entry(key, Rat(Val(x), Val(revenue)))
      ELSE EmptyDict

\* The entry Interest Coverage Ratio.
CoverageEntry(d) ==
  LET operating_income == Get(d, "Operating Income")
      interest_expense == Get(d, "Interest Expense")
  IN  IF operating_income # None /\ interest_expense \notin {None, Some(0)}
      THEN Entry("Interest Coverage Ratio",
                 Rat(Val(operating_income), Val(interest_expense)))
      ELSE EmptyDict

calculate_metrics(d) ==
  LET diagnostics ==
        Merge(GrossEntries(d),
        Merge(RatioEntry(d, "Operating Margin", Get(d, "Operating Income")),
        Merge(RatioEntry(d, "EBITDA Margin", EBITDAOf(d)),
        Merge(RatioEntry(d, "Pre-tax Margin", EBTOf(d)),
        Merge(CoverageEntry(d),
        Merge(RatioEntry(d, "Depreciation Ratio", Get(d, "Depreciation")),
              RatioEntry(d, "Amortization Ratio", Get(d, "Amortization"))))))))
  IN  Merge([k \in {"EBIT", "EBITDA", "EBT"} |->
               CASE k = "EBIT" -> EBITOf(d)
                 [] k = "EBITDA" -> EBITDAOf(d)
                 [] k = "EBT" -> EBTOf(d)],
            diagnostics)

\* --------------------------------------- compute_financial_health_score

\* metrics.get(key, default)
GetOr(d, k, default) == IF k \in DOMAIN d THEN d[k] ELSE default

\* A mutant of scale: the score is not raised to 1.
scale_without_floor(value, low, high) ==
  LET score == RMul(RDiv(RSub(value, low), RSub(high, low)), <<10, 1>>)
  IN  RMin(score, <<10, 1>>)

scale(value, low, high) ==
  LET score == RMul(RDiv(RSub(value, low), RSub(high, low)), <<10, 1>>)
  IN  RMax(<<1, 1>>, RMin(score, <<10, 1>>))

\* The six sub-scores, from the metrics or their neutral defaults.
SubScores(m) ==
  LET gm == GetOr(m, "Gross Margin", <<3, 5>>)
      om == GetOr(m, "Operating Margin", <<3, 20>>)
      ebm == GetOr(m, "EBITDA Margin", <<3, 20>>)
      ptm == GetOr(m, "Pre-tax Margin", <<3, 20>>)
      itr == GetOr(m, "Interest Coverage Ratio", <<10, 1>>)
      ce == GetOr(m, "Cost Efficiency", <<7, 20>>)
  IN  [score_gross |-> scale(gm, <<2, 5>>, <<4, 5>>),
       score_operating |-> scale(om, <<0, 1>>, <<3, 10>>),
       score_ebitda |-> scale(ebm, <<0, 1>>, <<3, 10>>),
       score_pretax |-> scale(ptm, <<0, 1>>, <<3, 10>>),
       score_interest |-> scale(itr, <<1, 1>>, <<20, 1>>),
       score_cost |-> scale(RSub(<<1, 2>>, ce), <<0, 1>>, <<3, 10>>)]

\* The weights of the composite, by sub-score.
Weights ==
  [score_gross |-> <<1, 4>>, score_operating |-> <<1, 5>>,
   score_ebitda |-> <<3, 20>>, score_pretax |-> <<3, 20>>,
   score_interest |-> <<3, 20>>, score_cost |-> <<1, 10>>]

\* The weighted sum, in the order the code adds it.
Weighted(w, x) ==
  RAdd(RAdd(RAdd(RAdd(RAdd(RMul(w.score_gross, x.score_gross),
                           RMul(w.score_operating, x.score_operating)),
                      RMul(w.score_ebitda, x.score_ebitda)),
                 RMul(w.score_pretax, x.score_pretax)),
            RMul(w.score_interest, x.score_interest)),
       RMul(w.score_cost, x.score_cost))

compute_financial_health_score(m) == Weighted(Weights, SubScores(m))

\* ------------------------------------------------ the metrics pipeline

Amounts == 0..MaxAmount
Optional == {None} \cup {Some(a) : a \in Amounts}
Negated(f) == [k \in DOMAIN f |-> IF f[k] = None THEN None ELSE Some(-Val(f[k]))]

\* The scenario of the design's tests: Revenue 1000, COGS 400, Operating
\* Income 200, Depreciation 50, Amortization 50, Interest Expense 20,
\* Income Before Tax 180.
Scenario ==
  [k \in FactKeys |->
     CASE k = "Revenue" -> Some(Float(1000))
       [] k = "Cost of Goods Sold" -> Some(Float(400))
       [] k = "Operating Income" -> Some(Float(200))
       [] k = "Depreciation" -> Some(Float(50))
       [] k = "Amortization" -> Some(Float(50))
       [] k = "Interest Expense" -> Some(Float(20))
       [] k = "Income Before Tax" -> Some(Float(180))]

\* A loss-making record of mixed signs: Revenue 1000, COGS 1200, Operating
\* Income -300, Interest Expense 20, Income Before Tax -320.
LossScenario ==
  [k \in FactKeys |->
     CASE k = "Revenue" -> Some(Float(1000))
       [] k = "Cost of Goods Sold" -> Some(Float(1200))
       [] k = "Operating Income" -> Some(-Float(300))
       [] k = "Depreciation" -> None
       [] k = "Amortization" -> None
       [] k = "Interest Expense" -> Some(Float(20))
       [] k = "Income Before Tax" -> Some(-Float(320))]

\* The dicts calculate_metrics is handed: every record of the 7 fields over
\* the amounts, the same with every amount negated, the two scenarios, the
\* empty dict of a failed streaming parse, and that dict after main has set
\* its Revenue.
FactsInputs ==
  [FactKeys -> Optional] \cup {Negated(f) : f \in [FactKeys -> Optional]}
    \cup {Scenario, LossScenario, EmptyDict}
    \cup {Entry("Revenue", Some(a)) : a \in Amounts}

MetricsInit ==
  /\ facts \in FactsInputs
  /\ metrics = None
  /\ scores = None
  /\ composite = None

\* metrics = calculate_metrics(data)
Calculate ==
  /\ metrics = None
  /\ metrics' = Some(calculate_metrics(facts))
  /\ UNCHANGED <<facts, scores, composite, notMetric>>

\* composite_score = compute_financial_health_score(metrics)
Score ==
  /\ metrics # None
  /\ composite = None
  /\ scores' = Some(SubScores(Val(metrics)))
  /\ composite' = Some(compute_financial_health_score(Val(metrics)))
  /\ UNCHANGED <<facts, metrics, notMetric>>

MetricsNext == Calculate \/ Score

\* ------------------------------------------------- main and the caches

\* main resolves one path, latest_file, with both cached resolvers.  Each
\* resolver's lru_cache is keyed by the path alone and keeps up to 10
\* paths, so the entry of the one path main uses is never evicted; the
\* model holds that entry.  A hit returns the dict object the cache holds,
\* not a copy: main's data is the cached object itself, and an assignment
\* into data is an assignment into the cache entry.

\* The documents the path can hold: up to MaxDocLen elements, each an
\* inline Revenue or Operating Income annotation or a us-gaap Revenue
\* element, well formed or not.
PipeElems == {Element("nonFraction", "SalesRevenueNet", <<"1">>),
              Element("nonFraction", "OperatingIncome", <<"2">>),
              Element("gaap", "SalesRevenueNet", <<"2">>)}
PipeDocuments ==
  {Document(es, ok) :
     es \in UNION {[1..n -> PipeElems] : n \in 0..MaxDocLen},
     ok \in BOOLEAN}

\* A call through lru_cache: the object the cache holds for the path, or on
\* a miss the freshly computed one (which the cache then holds).
Cached(cache, fresh) == IF cache # None THEN Val(cache) ELSE fresh

PipeInit ==
  /\ file \in PipeDocuments
  /\ iterCache = None
  /\ wholeCache = None
  /\ mainPc = "start"
  /\ lastCall = None
  /\ firstIter = None
  /\ touched = FALSE
  /\ metrics = None
  /\ scores = None
  /\ composite = None

\* The file at the path gets another content (a filing is downloaded over
\* it); the history of calls on the old content ends.
WriteFile ==
  /\ \E d \in PipeDocuments : d # file /\ file' = d
  /\ firstIter' = None
  /\ UNCHANGED <<iterCache, wholeCache, mainPc, lastCall, touched,
                 metrics, scores, composite, notPipe>>

\* Line 375: data = xbrl_parse_financial_data_iterparse(latest_file)
MainParse ==
  /\ mainPc = "start"
  /\ LET fresh == xbrl_parse_financial_data_iterparse(file)
         r == Cached(iterCache, fresh)
     IN  /\ iterCache' = Some(r)
         /\ lastCall' =
              Some([fn |-> "iterparse", value |-> r, fresh |-> fresh])
         /\ firstIter' = IF firstIter = None THEN Some(r) ELSE firstIter
  /\ mainPc' = "parsed"
  /\ UNCHANGED <<file, wholeCache, touched, metrics, scores, composite,
                 notPipe>>

\* Line 377: alt_data = xbrl_parse_financial_data(latest_file)
MainAlt ==
  /\ mainPc = "parsed"
  /\ LET fresh == xbrl_parse_financial_data(file)
         r == Cached(wholeCache, fresh)
     IN  /\ wholeCache' = Some(r)
         /\ lastCall' =
              Some([fn |-> "fromstring", value |-> r, fresh |-> fresh])
  /\ mainPc' = "alt"
  /\ UNCHANGED <<file, iterCache, firstIter, touched, metrics, scores,
                 composite, notPipe>>

\* Lines 378-379: the secondary's Revenue, when there is one, is assigned
\* into data.
Reconciled(d, alt_data) ==
  IF Get(alt_data, "Revenue") # None
  THEN SetItem(d, "Revenue", Get(alt_data, "Revenue"))
  ELSE d

MainReconcile ==
  /\ mainPc = "alt"
  /\ iterCache' = Some(Reconciled(Val(iterCache), Val(wholeCache)))
  /\ touched' = (touched \/ Get(Val(wholeCache), "Revenue") # None)
  /\ mainPc' = "reconciled"
  /\ UNCHANGED <<file, wholeCache, lastCall, firstIter, metrics, scores,
                 composite, notPipe>>

\* Line 385: metrics = calculate_metrics(data)
MainMetrics ==
  /\ mainPc = "reconciled"
  /\ metrics' = Some(calculate_metrics(Val(iterCache)))
  /\ mainPc' = "metrics"
  /\ UNCHANGED <<file, iterCache, wholeCache, lastCall, firstIter, touched,
                 scores, composite, notPipe>>

\* Line 390: composite_score = compute_financial_health_score(metrics)
MainScore ==
  /\ mainPc = "metrics"
  /\ scores' = Some(SubScores(Val(metrics)))
  /\ composite' = Some(compute_financial_health_score(Val(metrics)))
  /\ mainPc' = "scored"
  /\ UNCHANGED <<file, iterCache, wholeCache, lastCall, firstIter, touched,
                 metrics, notPipe>>

\* The process runs the pipeline again (main is called once more): its
\* locals are gone, the caches of the module stay.
MainAgain ==
  /\ mainPc = "scored"
  /\ mainPc' = "start"
  /\ metrics' = None
  /\ scores' = None
  /\ composite' = None
  /\ UNCHANGED <<file, iterCache, wholeCache, lastCall, firstIter, touched,
                 notPipe>>

PipeNext ==
  \/ WriteFile \/ MainParse \/ MainAlt \/ MainReconcile
  \/ MainMetrics \/ MainScore \/ MainAgain

\* ------------------------------------------------------- specifications

\* The variables of a part that a specification does not run stay as they
\* are here.
ScanIdle ==
  /\ pc = "idle"
  /\ count = 0
  /\ data = EmptyData
  /\ result = None
  /\ src = [k \in ScanKeys |-> NoName]
  /\ best = NoBest
  /\ bad = [n |-> 0, held |-> FALSE, later |-> FALSE]
ResolveIdle ==
  /\ document = Document(<< >>, TRUE)
  /\ iterResult = None
  /\ wholeResult = None
MetricsIdle ==
  /\ facts = EmptyDict
  /\ metrics = None
  /\ scores = None
  /\ composite = None
PipeIdle ==
  /\ file = Document(<< >>, TRUE)
  /\ iterCache = None
  /\ wholeCache = None
  /\ mainPc = "idle"
  /\ lastCall = None
  /\ firstIter = None
  /\ touched = FALSE

\* The streaming scan, element by element.
InitScan == ScanInit /\ ResolveIdle /\ MetricsIdle /\ PipeIdle
SpecScan == InitScan /\ [][ScanNext]_vars

\* Both resolvers on whole documents.
InitResolve == ResolveInit /\ ScanIdle /\ MetricsIdle /\ PipeIdle
SpecResolve == InitResolve /\ [][ResolveNext]_vars

\* calculate_metrics and compute_financial_health_score on every input.
InitMetrics == MetricsInit /\ ScanIdle /\ ResolveIdle /\ PipeIdle
SpecMetrics == InitMetrics /\ [][MetricsNext]_vars

\* main, run any number of times in one process, while the file at the
\* path may change.
Init == PipeInit /\ facts = EmptyDict /\ ScanIdle /\ ResolveIdle
Spec == Init /\ [][PipeNext]_vars

\* ------------------------------------------------- claims on the caches

\* C3: no stale result.  The record a cached resolver call returned is the
\* facts of the content the path had at that call.  (A streaming record main
\* has assigned into is left out: what it holds is C4's matter.)
C3_NoStaleResult ==
  (lastCall # None /\ (Val(lastCall).fn = "fromstring" \/ ~touched))
    => Val(lastCall).value = Val(lastCall).fresh

\* C4: idempotence.  While the document at the path is unchanged, every
\* call of the streaming resolver returns a record equal, field by field, to
\* the record its first call returned, as that record was when returned.
C4_SecondCallEqualsFirst ==
  (lastCall # None /\ Val(lastCall).fn = "iterparse" /\ firstIter # None)
    => Val(lastCall).value = Val(firstIter)

\* C11: reconciliation yields one record.  The step of lines 378-379 leaves
\* in data a record whose Revenue is the secondary's when the secondary has
\* one and the primary's otherwise, and whose six other fields are all there
\* and are the primary's, whatever the two resolvers returned.
C11_ReconciledRecord ==
  [][(mainPc = "alt" /\ mainPc' = "reconciled") =>
       LET primary == Val(iterCache)
           secondary == Val(wholeCache)
           d == Val(iterCache')
       IN  /\ DOMAIN d = FactKeys
           /\ d["Revenue"] = (IF Get(secondary, "Revenue") # None
                              THEN Get(secondary, "Revenue")
                              ELSE Get(primary, "Revenue"))
           /\ \A k \in FactKeys \ {"Revenue"} :
                k \in DOMAIN primary /\ d[k] = primary[k]]_vars

\* ------------------------------------------------- claims on the metrics

\* The entries that are ratios to Revenue.
RevenueRatios == {"Gross Margin", "Operating Margin", "EBITDA Margin",
                  "Pre-tax Margin", "Depreciation Ratio",
                  "Amortization Ratio", "Cost Efficiency"}

\* C5: metrics omission.  When Revenue is absent from the facts, the record
\* calculate_metrics returned has no entry for any ratio to Revenue.
C5_NoRatiosWithoutRevenue ==
  (metrics # None /\ Get(facts, "Revenue") = None)
    => DOMAIN Val(metrics) \cap RevenueRatios = {}

\* C5 witness: metrics were calculated from facts in which only Revenue is
\* absent, and the one ratio that needs no Revenue is there.
C5_Witness ==
  /\ metrics # None
  /\ DOMAIN facts = FactKeys
  /\ \A k \in FactKeys : (facts[k] = None) <=> (k = "Revenue")
  /\ "Interest Coverage Ratio" \in DOMAIN Val(metrics)

\* C6: the score is total and bounded.  Whenever a composite was returned
\* it is a number, each of the six sub-scores lies in [1, 10], the weights
\* sum to 1, and the composite lies in [1, 10].
C6_ScoreBounded ==
  composite # None =>
    /\ Val(composite)[2] > 0
    /\ \A k \in DOMAIN Val(scores) :
         RLeq(<<1, 1>>, Val(scores)[k]) /\ RLeq(Val(scores)[k], <<10, 1>>)
    /\ Weighted(Weights, [k \in DOMAIN Weights |-> <<1, 1>>]) = <<1, 1>>
    /\ RLeq(<<1, 1>>, Val(composite)) /\ RLeq(Val(composite), <<10, 1>>)

\* C6 witness: a composite was returned whose sub-scores include one held up
\* at 1, one held down at 10 and one strictly between, from a neutral
\* default.
C6_Witness ==
  /\ composite # None
  /\ "Gross Margin" \in DOMAIN Val(metrics)
  /\ Val(scores).score_gross = <<1, 1>>
  /\ Val(scores).score_operating = <<10, 1>>
  /\ "Interest Coverage Ratio" \notin DOMAIN Val(metrics)
  /\ RLess(<<1, 1>>, Val(scores).score_interest)
  /\ RLess(Val(scores).score_interest, <<10, 1>>)

\* C8: the three earnings figures.  In the record calculate_metrics
\* returned, EBIT is Operating Income, else Revenue - COGS, else absent;
\* EBITDA is there exactly when EBIT is and is EBIT plus the depreciation
\* and the amortization that are there; EBT is Income Before Tax, else EBIT;
\* and the scenario gives EBITDA 300.
C8_Earnings ==
  metrics # None =>
    LET m == Val(metrics)
        rev == Get(facts, "Revenue")
        cogs == Get(facts, "Cost of Goods Sold")
        oi == Get(facts, "Operating Income")
        dep == Get(facts, "Depreciation")
        amo == Get(facts, "Amortization")
        ibt == Get(facts, "Income Before Tax")
    IN  /\ m["EBIT"] = (IF oi # None THEN oi
                        ELSE IF rev # None /\ cogs # None
                        THEN Some(Val(rev) - Val(cogs)) ELSE None)
        /\ (m["EBITDA"] # None) <=> (m["EBIT"] # None)
        /\ m["EBIT"] # None =>
             Val(m["EBITDA"]) - Val(m["EBIT"]) =
               (IF dep # None THEN Val(dep) ELSE 0)
               + (IF amo # None THEN Val(amo) ELSE 0)
        /\ m["EBT"] = (IF ibt # None THEN ibt ELSE m["EBIT"])
        /\ facts = Scenario => m["EBITDA"] = Some(Float(300))

\* C8 witness: metrics were calculated for the scenario.
C8_Witness ==
  /\ facts = Scenario
  /\ metrics # None
  /\ Val(metrics)["EBITDA"] = Some(Float(300))
  /\ Val(metrics)["EBIT"] = Some(Float(200))

\* ------------------------------------------- claims on whole documents

\* The results the resolvers have returned for the document.
Returned == {r \in {iterResult, wholeResult} : r # None}

\* C2: a fragment that cannot be parsed.  Every result a resolver returned
\* for a document that is not well formed has all 7 fields, each absent.
C2_MalformedAllAbsent ==
  ~document.ok =>
    \A r \in Returned :
      /\ DOMAIN Val(r) = FactKeys
      /\ \A k \in FactKeys : Val(r)[k] = None

\* The least index of a non-empty set of indices.
First(S) == CHOOSE i \in S : \A j \in S : i <= j
NumberIn(t) == Float(DecVal(Strip(RemoveCommas(t))))

\* The combined figure the streaming scan holds after the elements: that of
\* the first inline annotation named DepreciationDepletionAndAmortization
\* with a numeric text.
IterCombined ==
  LET hits == {i \in 1..Len(document.elems) :
                 /\ Numeric(document.elems[i])
                 /\ document.elems[i].name =
                      "DepreciationDepletionAndAmortization"}
  IN  IF hits = {} THEN None
      ELSE Some(NumberIn(document.elems[First(hits)].text))

\* The combined figure the whole-fragment query holds: the text of the first
\* us-gaap DepreciationDepletionAndAmortization element, when it is numeric.
WholeCombined ==
  LET hits == {i \in 1..Len(document.elems) :
                 /\ document.elems[i].tag = "gaap"
                 /\ document.elems[i].name =
                      "DepreciationDepletionAndAmortization"}
      t == document.elems[First(hits)].text
  IN  IF hits # {} /\ IsNumber(Strip(RemoveCommas(t)))
      THEN Some(NumberIn(t)) ELSE None

\* Record r holds the even split of the combined figure c: both halves when
\* c is there, neither when it is not.
SplitOf(c, r) ==
  LET dep == Get(r, "Depreciation")
      amo == Get(r, "Amortization")
  IN  IF c # None
      THEN /\ dep # None /\ amo # None
           /\ 2 * Val(dep) = Val(c) /\ 2 * Val(amo) = Val(c)
      ELSE dep = None /\ amo = None

\* C7 as stated: in every returned record, Depreciation and Amortization
\* are half the combined figure the resolver captured, and absent when it
\* captured none.  The streaming scan captures from the elements it is
\* handed before a parse error; the whole-fragment query captures nothing
\* from a fragment that does not parse.
C7_SplitWhenCaptured ==
  /\ iterResult # None => SplitOf(IterCombined, Val(iterResult))
  /\ wholeResult # None =>
       SplitOf(IF document.ok THEN WholeCombined ELSE None, Val(wholeResult))

\* C7 amended: the split holds in the record of every resolver whose parse
\* reached the end of the fragment; after a parse error both are absent
\* whatever was captured; so Depreciation is there exactly when
\* Amortization is.  A combined 1000 gives 500.0.
C7_SplitWhenParsed ==
  /\ iterResult # None =>
       SplitOf(IF document.ok THEN IterCombined ELSE None, Val(iterResult))
  /\ wholeResult # None =>
       SplitOf(IF document.ok THEN WholeCombined ELSE None, Val(wholeResult))
  /\ \A r \in Returned :
       (Get(Val(r), "Depreciation") # None)
         <=> (Get(Val(r), "Amortization") # None)
  /\ FinalData([EmptyData EXCEPT !["DepreciationAmortation"] =
                  Some(Float(1000))])["Depreciation"] = Some(Float(500))

\* C7 witness: both resolvers have returned for a well-formed document in
\* which each captured a combined figure, and the two figures differ.
C7_Witness ==
  /\ document.ok
  /\ iterResult # None /\ wholeResult # None
  /\ IterCombined # None /\ WholeCombined # None
  /\ IterCombined # WholeCombined
  /\ Val(iterResult)["Depreciation"] # Val(wholeResult)["Depreciation"]

\* ------------------------------------------- claims on the streaming scan

\* C1: priority override.  When the scan has ended, for every fact with more
\* than one alias: if the most preferred numeric annotation read for the
\* fact came after a less preferred one, the resolved value is its value.
C1_PriorityOverride ==
  pc = "done" =>
    \A k \in ScanKeys \ {"DepreciationAmortation"} :
      (best[k] # None /\ Val(best[k]).late)
        => Val(result)[k] = Some(Val(best[k]).value)

\* C9: the first match is kept.  A step changes a value the fact already has
\* only when the annotation that supplies the new value has a strictly more
\* preferred alias than the one that supplied the old value.
C9_FirstMatchKept ==
  [][\A k \in ScanKeys :
       (data[k] # None /\ data'[k] # data[k])
         => Rank(src'[k]) < Rank(src[k])]_vars

\* C10: a numeric parse failure is local.  The step that reads an annotation
\* of a known alias whose text is no number changes no field of data and
\* leaves the scan running.
C10_ParseFailureLocal ==
  [][bad'.n # bad.n => (data' = data /\ pc' = "scan" /\ result' = result)]_vars

\* C10 witness: such an annotation was read for a fact that already had a
\* value, and an annotation read after it was resolved.
C10_Witness == bad.n > 0 /\ bad.held /\ bad.later

====
